---- MODULE Spec2Model ----
(***************************************************************************)
(* Little Module Player (littlemodplayer.c): the sequencer, the channel    *)
(* phase accumulators and the three buffer-filling loops, as a state       *)
(* machine whose actions are the calls of the public API.                  *)
(*                                                                         *)
(* Integers of the model checker are 32-bit signed.  The only unsigned     *)
(* 32-bit value above 2^31 the player produces is ~0 (the position-jump    *)
(* sentinel); it is held as -1, its two's-complement reading, and the      *)
(* unsigned operations on mps.pos are written for that reading.            *)
(***************************************************************************)
EXTENDS Integers, Naturals, Sequences, FiniteSets, TLC

LMP_SAMPLERATE == 44100

SAMP_FP_SPLIT == 12

FP_ONE == 2 ^ SAMP_FP_SPLIT

U16 == 65536

NO_EFFECT == 255

LMP_OPT_LOOP == 0

LMP_OPT_SUPPORT_TEMPO == 1

UMAX == -1

MixTypes == {"LMP_MONO", "LMP_STEREO_SOFT", "LMP_STEREO_HARD"}

Chans == 0 .. 3

(***************************************************************************)
(* Unsigned 32-bit arithmetic on mps.pos (unsigned int).                   *)
(***************************************************************************)
IncU32(x) == IF x = UMAX THEN 0 ELSE x + 1

GeU32(x, y) == x = UMAX \/ x >= y

LtU32(x, y) == ~GeU32(x, y)

\* The value of the singleton set S.  Written One({e(x) : x \in {d}}), it is
\* e(d) with d evaluated once, however many times e uses it.
One(S) == CHOOSE x \in S : TRUE

BoolOf(v) == IF v = 0 THEN 0 ELSE 1

(***************************************************************************)
(* Utilities                                                               *)
(***************************************************************************)
lmp_samps_from_tempo(tempo) == ((125 * LMP_SAMPLERATE) \div 50) \div tempo

\* (1<<12)*254*14000/LMP_SAMPLERATE in 64 bits; numerator and denominator
\* are both divided by 100 here to stay inside 32 bits (the quotient is the same).
PhaseNumerator == (FP_ONE * 254 * 140) \div (LMP_SAMPLERATE \div 100)

lmp_pi_from_pitch(pitch) == PhaseNumerator \div pitch

\* BE_to_host16 of the halfword a little-endian host loads from file bytes <<b0, b1>>
BS16(x) == ((x \div 256) % 256) + ((x * 256) % U16)

LoadLE16(b) == b[1] + 256 * b[2]

BE_to_host16(b) == BS16(LoadLE16(b))

(***************************************************************************)
(* The module file.  A module value holds what lmp_init and lmp_tick read   *)
(* of the file: magic (whether "M.K." stands at 0x438), length (the byte   *)
(* at 0x3b6 / 0x1d6), sequence (the table at 0x3b8 / 0x1d8, entries past   *)
(* the ones listed are 0), instr (the 30-byte instrument records from      *)
(* 0x14, each given by the file bytes of its halfwords 11..14; records     *)
(* past the ones listed are all zero) and rows (the pattern data: the four *)
(* 4-byte cells of <<pattern, row>>) and rest (the cells of every row not   *)
(* listed in rows).                                                        *)
(***************************************************************************)
ZeroCell == <<0, 0, 0, 0>>

ZeroRow == <<ZeroCell, ZeroCell, ZeroCell, ZeroCell>>

ZeroInstr == [len |-> <<0, 0>>, vol |-> <<0, 0>>, rpos |-> <<0, 0>>, rlen |-> <<0, 0>>]

SequenceAt(mod, pos) ==
    IF pos + 1 <= Len(mod.sequence) THEN mod.sequence[pos + 1] ELSE 0

CurrentFrame(mod, pattern, row) ==
    IF <<pattern, row>> \in DOMAIN mod.rows THEN mod.rows[<<pattern, row>>] ELSE mod.rest

InstrRecord(mod, i) ==
    IF i + 1 <= Len(mod.instr) THEN mod.instr[i + 1] ELSE ZeroInstr

NumInstruments(thirtyone) == IF thirtyone = 1 THEN 31 ELSE 15

\* mps->inst[i] as lmp_init unpacks it (uint16_t fields, uint8_t default_volume)
inst(mod, i) ==
    LET r == InstrRecord(mod, i)
    IN  [len            |-> (BE_to_host16(r.len) * 2) % U16,
         default_volume |-> BE_to_host16(r.vol) % 128,
         repeat_pos     |-> (BE_to_host16(r.rpos) * 2) % U16,
         repeat_len     |-> (BE_to_host16(r.rlen) * 2) % U16]

\* The channel fields lmp_init sets are on, inst, vol and effect.  The others
\* are whatever the caller's memory held: pitch is the one of them that can be
\* read (by a portamento tick) before a note writes it, so its first value is
\* an input (pitch0); the rest are written by the note trigger before any read.
InitChan(pitch0) ==
    [on |-> 0, vol |-> 64, inst |-> 0, looping |-> 0, pitch |-> pitch0,
     effect |-> NO_EFFECT, effect_param |-> 0, sample |-> 0, pos |-> 0,
     phaseinc |-> 0, len |-> 0, repeat_pos |-> 0, repeat_end |-> 0]

lmp_init(mod, pitch0) ==
    [thirtyone        |-> IF mod.magic THEN 1 ELSE 0,
     length           |-> mod.length,
     pos              |-> 0,
     pos_pattern      |-> 0,
     speed            |-> 6,
     tick_counter     |-> 0,
     tempo            |-> 125,
     song_loop        |-> 1,
     support_tempo    |-> 1,
     cs               |-> [c \in Chans |-> InitChan(pitch0)],
     sample_counter   |-> lmp_samps_from_tempo(125),
     samples_per_tick |-> lmp_samps_from_tempo(125)]

lmp_set_option(mps, option, val) ==
    IF option = LMP_OPT_LOOP THEN [mps EXCEPT !.song_loop = BoolOf(val)]
    ELSE IF option = LMP_OPT_SUPPORT_TEMPO THEN [mps EXCEPT !.support_tempo = BoolOf(val)]
    ELSE mps

lmp_get_length(mps) == mps.length

\* if (pos <= mps->length)
lmp_set_pos_Inclusive(mps, pos) ==
    IF LtU32(pos, mps.length) \/ pos = mps.length
    THEN [mps EXCEPT !.pos = pos, !.pos_pattern = 0]
    ELSE mps

lmp_set_pos(mps, pos) ==
    IF LtU32(pos, mps.length)
    THEN [mps EXCEPT !.pos = pos, !.pos_pattern = 0]
    ELSE mps

(***************************************************************************)
(* Effect commands of a row                                                *)
(***************************************************************************)
Int8(val) == IF val >= 128 THEN val - 256 ELSE val

VolumeSlide(vol, val) ==
    LET v == vol + Int8(val)
        w == IF v > 64 THEN 64 ELSE v
    IN  IF w < 0 THEN 0 ELSE w

BreakRow(val) == ((val \div 16) * 10) + (val % 16)

SetSpeed(mps, val) ==
    LET a == IF val > 0 /\ val < 31
             THEN [mps EXCEPT !.speed = val, !.tick_counter = val]
             ELSE mps
    IN  IF val >= 32 /\ a.support_tempo # 0
        THEN [a EXCEPT !.tempo = val, !.samples_per_tick = lmp_samps_from_tempo(val)]
        ELSE a

\* The jump stores val as it is: no ~0 for B00
JumpTarget_NoSentinel(val) == val

\* Position jump to val; ~0 when val is 0 ("loop code below catches this")
JumpTarget(val) == IF val = 0 THEN UMAX ELSE val

lmp_process_command(mps, chan, command, val) ==
    CASE command \in {1, 2} ->
            [mps EXCEPT !.cs[chan].effect = command, !.cs[chan].effect_param = val]
      [] command = 10 ->
            [mps EXCEPT !.cs[chan].vol = VolumeSlide(@, val)]
      [] command = 11 ->
            [mps EXCEPT !.pos_pattern = 0, !.pos = JumpTarget(val)]
      [] command = 12 ->
            [mps EXCEPT !.cs[chan].vol = IF val > 64 THEN 64 ELSE val]
      [] command = 13 ->
            IF BreakRow(val) > 63 THEN mps
            ELSE [mps EXCEPT !.pos_pattern = BreakRow(val), !.pos = IncU32(@)]
      [] command = 15 -> SetSpeed(mps, val)
      [] OTHER -> mps

(***************************************************************************)
(* lmp_tick.  The result is [mps, done, looped, fault, frame]: done is the *)
(* value returned, looped records that the end-of-sequence branch          *)
(* ("LOOPED") was taken, fault that lmp_pi_from_pitch was called with      *)
(* pitch 0 (an integer division by zero: the call does not return), and    *)
(* frame is the four cells of the row processed (<<>> on an inter-row      *)
(* tick).                                                                  *)
(***************************************************************************)
\* Portamento down without the clamp at 856
PortamentoChan_NoUpperClamp(ch) ==
    IF ch.effect = 1
    THEN LET p == (ch.pitch - ch.effect_param) % U16
             q == IF p < 113 THEN 113 ELSE p
         IN  [ch EXCEPT !.pitch = q, !.phaseinc = lmp_pi_from_pitch(q)]
    ELSE IF ch.effect = 2
    THEN LET q == (ch.pitch + ch.effect_param) % U16
         IN  IF q = 0 THEN [ch EXCEPT !.pitch = q]
             ELSE [ch EXCEPT !.pitch = q, !.phaseinc = lmp_pi_from_pitch(q)]
    ELSE ch

PortamentoChan(ch) ==
    IF ch.effect = 1
    THEN LET p == (ch.pitch - ch.effect_param) % U16
             q == IF p < 113 THEN 113 ELSE p
         IN  [ch EXCEPT !.pitch = q, !.phaseinc = lmp_pi_from_pitch(q)]
    ELSE IF ch.effect = 2
    THEN LET p == (ch.pitch + ch.effect_param) % U16
             q == IF p > 856 THEN 856 ELSE p
         IN  IF q = 0 THEN [ch EXCEPT !.pitch = q]
             ELSE [ch EXCEPT !.pitch = q, !.phaseinc = lmp_pi_from_pitch(q)]
    ELSE ch

PortamentoFault(ch) ==
    ch.effect = 2 /\ (ch.pitch + ch.effect_param) % U16 = 0

InterRowTick(mps) ==
    [mps    |-> [mps EXCEPT !.cs = [c \in Chans |-> PortamentoChan(mps.cs[c])],
                            !.tick_counter = @ - 1],
     done   |-> 0,
     looped |-> FALSE,
     fault  |-> \E c \in Chans : PortamentoFault(mps.cs[c]),
     frame  |-> <<>>]

\* Fields of the 32-bit word of a cell, from its file bytes <<b0, b1, b2, b3>>
\* as a little-endian host loads them (note = b0 | b1<<8 | b2<<16 | b3<<24).
NoteLow24(cell) == cell[1] + 256 * cell[2] + 65536 * cell[3]

NoteVal(cell) == cell[4]

NoteInst(cell) == ((NoteLow24(cell) \div 1048576) % 16) + (((NoteLow24(cell) \div 16) % 2) * 16)

NoteFreq(cell) == ((NoteLow24(cell) % 16) * 256) + ((NoteLow24(cell) \div 256) % 256)

NoteCommand(cell) == (NoteLow24(cell) \div 65536) % 16

PlayNote(ch, mod, inst_field, freq) ==
    LET i  == IF inst_field # 0 THEN inst_field - 1 ELSE ch.inst
        ins == inst(mod, i)
        a  == [ch EXCEPT !.on = 1,
                         !.inst = i,
                         !.vol = IF inst_field # 0 THEN ins.default_volume ELSE @,
                         !.sample = i,
                         !.pos = 0,
                         !.len = ins.len * FP_ONE,
                         !.phaseinc = lmp_pi_from_pitch(freq),
                         !.pitch = freq]
    IN  IF ins.repeat_len # 2
        THEN [a EXCEPT !.looping = 1,
                       !.repeat_pos = ins.repeat_pos * FP_ONE,
                       !.repeat_end = (ins.repeat_pos + ins.repeat_len) * FP_ONE]
        ELSE [a EXCEPT !.looping = 0]

\* The command is processed inside the "Play a note?" branch only
RowChan_CommandWithNote(mps, mod, frame, chan) ==
    LET cell == frame[chan + 1]
        val == NoteVal(cell)
        inst_field == NoteInst(cell)
        freq == NoteFreq(cell)
        command == NoteCommand(cell)
        a == [mps EXCEPT !.cs[chan].effect = NO_EFFECT]
    IN  IF freq # 0 /\ inst_field <= NumInstruments(mps.thirtyone)
        THEN lmp_process_command([a EXCEPT !.cs[chan] = PlayNote(@, mod, inst_field, freq)],
                                 chan, command, val)
        ELSE a

\* The row does not reset cs[chan].effect
RowChan_KeepsEffect(mps, mod, frame, chan) ==
    LET cell == frame[chan + 1]
        val == NoteVal(cell)
        inst_field == NoteInst(cell)
        freq == NoteFreq(cell)
        command == NoteCommand(cell)
        b == IF freq # 0 /\ inst_field <= NumInstruments(mps.thirtyone)
             THEN [mps EXCEPT !.cs[chan] = PlayNote(@, mod, inst_field, freq)]
             ELSE mps
    IN  lmp_process_command(b, chan, command, val)

RowChan(mps, mod, frame, chan) ==
    LET cell == frame[chan + 1]
        val == NoteVal(cell)
        inst_field == NoteInst(cell)
        freq == NoteFreq(cell)
        command == NoteCommand(cell)
        a == [mps EXCEPT !.cs[chan].effect = NO_EFFECT]
        b == IF freq # 0 /\ inst_field <= NumInstruments(mps.thirtyone)
             THEN [a EXCEPT !.cs[chan] = PlayNote(@, mod, inst_field, freq)]
             ELSE a
    IN  lmp_process_command(b, chan, command, val)

\* if (mps->pos > mps->length)
PastEnd_Strict(pos, length) == GeU32(pos, length) /\ pos # length

\* if (mps->pos >= mps->length)
PastEnd(pos, length) == GeU32(pos, length)

\* The branch does not reset mps->pos
WrapPos_NoReset(pos, looped) == pos

\* mps->pos = 0 in that branch
WrapPos(pos, looped) == IF looped THEN 0 ELSE pos

\* The branch never returns 1
SongDone_Never(looped, song_loop) == 0

\* The branch returns 1 without looking at song_loop
SongDone_IgnoresLoop(looped, song_loop) == IF looped THEN 1 ELSE 0

\* if (!mps->song_loop) return 1 in that branch, return 0 otherwise
SongDone(looped, song_loop) == IF looped /\ song_loop = 0 THEN 1 ELSE 0

\* for (chan = 0; chan < 4; chan++), from channel chan on
RECURSIVE RowChans(_, _, _, _)
RowChans(mps, mod, frame, chan) ==
    IF chan > 3 THEN mps
    ELSE One({ RowChans(m, mod, frame, chan + 1) : m \in {RowChan(mps, mod, frame, chan)} })

\* The end of the row: pattern wrap, then the end-of-sequence check
RowEnd(m4, frame) ==
    One({ [mps    |-> [m5 EXCEPT !.pos = WrapPos(@, PastEnd(m5.pos, m5.length))],
           done   |-> SongDone(PastEnd(m5.pos, m5.length), m5.song_loop),
           looped |-> PastEnd(m5.pos, m5.length),
           fault  |-> FALSE,
           frame  |-> frame] :
          m5 \in {IF m4.pos_pattern > 63
                  THEN [m4 EXCEPT !.pos = IncU32(@), !.pos_pattern = 0]
                  ELSE m4} })

RowTick(mps, mod) ==
    One({ One({ RowEnd(m4, frame) :
                m4 \in {RowChans([mps EXCEPT !.tick_counter = mps.speed, !.pos_pattern = @ + 1],
                                 mod, frame, 0)} }) :
          frame \in {CurrentFrame(mod, SequenceAt(mod, mps.pos), mps.pos_pattern)} })

\* if (mps->tick_counter > 0): one more inter-row tick per row
lmp_tick_RowAtZero(mps, mod) ==
    IF mps.tick_counter > 0 THEN InterRowTick(mps) ELSE RowTick(mps, mod)

lmp_tick(mps, mod) ==
    IF mps.tick_counter > 1 THEN InterRowTick(mps) ELSE RowTick(mps, mod)

(***************************************************************************)
(* lmp_render_samples: the phase accumulator of each channel               *)
(***************************************************************************)
\* A voice that passes len is switched off whatever its looping is
RenderChan_StopsAtEnd(ch) ==
    IF ch.on = 0 THEN ch
    ELSE LET p == ch.pos + ch.phaseinc
             a == IF ch.looping < 2 /\ p > ch.len
                  THEN [ch EXCEPT !.pos = p, !.on = 0]
                  ELSE [ch EXCEPT !.pos = p]
         IN  IF a.looping = 2 /\ a.pos > a.repeat_end
             THEN [a EXCEPT !.pos = a.repeat_pos]
             ELSE a

\* A looping voice wraps when it passes len, not repeat_end
RenderChan_WrapsAtLen(ch) ==
    IF ch.on = 0 THEN ch
    ELSE LET p == ch.pos + ch.phaseinc
             a == IF ch.looping < 2 /\ p > ch.len
                  THEN IF ch.looping = 0
                       THEN [ch EXCEPT !.pos = p, !.on = 0]
                       ELSE [ch EXCEPT !.pos = p, !.looping = 2]
                  ELSE [ch EXCEPT !.pos = p]
         IN  IF a.looping = 2 /\ a.pos > a.len
             THEN [a EXCEPT !.pos = a.repeat_pos]
             ELSE a

RenderChan(ch) ==
    IF ch.on = 0 THEN ch
    ELSE LET p == ch.pos + ch.phaseinc
             a == IF ch.looping < 2 /\ p > ch.len
                  THEN IF ch.looping = 0
                       THEN [ch EXCEPT !.pos = p, !.on = 0]
                       ELSE [ch EXCEPT !.pos = p, !.looping = 2]
                  ELSE [ch EXCEPT !.pos = p]
         IN  IF a.looping = 2 /\ a.pos > a.repeat_end
             THEN [a EXCEPT !.pos = a.repeat_pos]
             ELSE a

lmp_render_samples(mps) ==
    [mps EXCEPT !.cs = [c \in Chans |-> RenderChan(mps.cs[c])]]

\* if (mps->sample_counter-- == 0): the counter is compared before the decrement
lmp_check_for_tick_PostDecrement(mps, mod) ==
    IF mps.sample_counter = 0
    THEN [ticked |-> TRUE] @@ lmp_tick([mps EXCEPT !.sample_counter = mps.samples_per_tick], mod)
    ELSE [mps |-> [mps EXCEPT !.sample_counter = @ - 1],
          done |-> 0, looped |-> FALSE, fault |-> FALSE, frame |-> <<>>, ticked |-> FALSE]

\* The result of lmp_tick, or one with the same fields when no tick is due;
\* ticked tells which.
lmp_check_for_tick(mps, mod) ==
    IF mps.sample_counter - 1 = 0
    THEN [ticked |-> TRUE] @@ lmp_tick([mps EXCEPT !.sample_counter = mps.samples_per_tick], mod)
    ELSE [mps |-> [mps EXCEPT !.sample_counter = @ - 1],
          done |-> 0, looped |-> FALSE, fault |-> FALSE, frame |-> <<>>, ticked |-> FALSE]

(***************************************************************************)
(* The buffer-filling loops.  A run value r is the state of one call in    *)
(* progress: the player state, the local done, the loop index i, a         *)
(* summary of the stores made to samples[] so far (how many, the lowest    *)
(* and highest index stored to, and whether every store went to the index  *)
(* right after the previous one), and a record of the ticks of the call:   *)
(* looped and fault as lmp_tick reports them, frame (the row processed by  *)
(* the latest tick, <<>> if that was an inter-row tick or there was none)  *)
(* and reload (the value sample_counter was last reloaded with), row (the   *)
(* latest row processed in the call, <<>> if none) and past (by how much   *)
(* the highest index read from a sample lay beyond the sample's last byte, *)
(* 0 if no read did).                                                      *)
(***************************************************************************)
NoStores == [count |-> 0, lo |-> 0, hi |-> -1, dense |-> TRUE]

\* cnt stores, to samples[first], samples[first + 1], ...
Store(out, first, cnt) ==
    IF cnt = 0 THEN out
    ELSE [count |-> out.count + cnt,
          lo    |-> IF out.count = 0 \/ first < out.lo THEN first ELSE out.lo,
          hi    |-> IF out.count = 0 \/ first + cnt - 1 > out.hi THEN first + cnt - 1 ELSE out.hi,
          dense |-> out.dense /\ (out.count = 0 \/ first = out.hi + 1)]

\* The highest index of sample[] that lmp_render_samples reads for a channel
\* that is on: pos >> 12 for c1, and one more for c2 when pos >> 12 is below
\* len >> 12.
HighestRead(ch) ==
    IF ch.pos \div FP_ONE < ch.len \div FP_ONE
    THEN (ch.pos \div FP_ONE) + 1
    ELSE ch.pos \div FP_ONE

\* By how much that index lies beyond the last byte of the channel's sample
\* (len >> 12 bytes long); 0 if it does not, or the channel is off
ReadPastEnd(ch) ==
    IF ch.on = 0 \/ HighestRead(ch) < ch.len \div FP_ONE THEN 0
    ELSE HighestRead(ch) - (ch.len \div FP_ONE) + 1

Max(S) == CHOOSE x \in S : \A y \in S : x >= y

StartRun(mps, reload) ==
    [mps |-> mps, done |-> 0, looped |-> FALSE, fault |-> FALSE, i |-> 0, out |-> NoStores,
     frame |-> <<>>, reload |-> reload, row |-> <<>>, past |-> 0]

\* One iteration of the for loop; width is the number of samples it stores
\* (1 in lmp_fill_buffer_mono, 2 in the stereo loops, whose body has its own i++).
Frame(r, mod, width) ==
    IF r.fault THEN r
    ELSE One({ [mps    |-> t.mps,
                done   |-> IF r.done = 1 \/ t.done = 1 THEN 1 ELSE 0,
                looped |-> r.looped \/ t.looped,
                fault  |-> t.fault,
                i      |-> r.i + width,
                out    |-> Store(r.out, r.i, width),
                frame  |-> IF t.ticked THEN t.frame ELSE r.frame,
                reload |-> IF t.ticked THEN r.mps.samples_per_tick ELSE r.reload,
                row    |-> IF t.ticked /\ t.frame # <<>> THEN t.frame ELSE r.row,
                past   |-> Max({r.past} \cup {ReadPastEnd(r.mps.cs[c]) : c \in Chans})] :
               t \in {One({ lmp_check_for_tick(m, mod) : m \in {lmp_render_samples(r.mps)} })} })

\* The number of next iterations, at most k, in which lmp_render_samples only
\* advances the accumulator of channel ch: none if it is on and the accumulator
\* passes len (looping < 2) or repeat_end (looping = 2) in the next one.
QuietChan(ch, k) ==
    IF ch.on = 0 \/ ch.phaseinc = 0 THEN k
    ELSE One({ IF ch.pos > limit THEN 0
               ELSE IF (limit - ch.pos) \div ch.phaseinc < k
               THEN (limit - ch.pos) \div ch.phaseinc
               ELSE k :
               limit \in {IF ch.looping = 2 THEN ch.repeat_end ELSE ch.len} })

Min(S) == CHOOSE x \in S : \A y \in S : x <= y

\* The number of next iterations, at most k, in which that is so of every
\* channel and sample_counter does not reach zero: lmp_check_for_tick only
\* decrements sample_counter in them.
IdleFrames(r, k) ==
    IF r.fault THEN 0
    ELSE Min({k, r.mps.sample_counter - 1} \cup {QuietChan(r.mps.cs[c], k) : c \in Chans})

SkipChan(ch, j) ==
    IF ch.on = 0 THEN ch ELSE [ch EXCEPT !.pos = @ + j * ch.phaseinc]

\* j such iterations at once
SkipIdle(r, j, width) ==
    [r EXCEPT !.mps.sample_counter = @ - j,
              !.mps.cs = [c \in Chans |-> SkipChan(r.mps.cs[c], j)],
              !.i = @ + j * width,
              !.out = Store(@, r.i, j * width),
              !.past = Max({@} \cup {ReadPastEnd(SkipChan(r.mps.cs[c], j - 1)) : c \in Chans})]

\* k iterations of the loop
RECURSIVE Frames(_, _, _, _)
Frames(r, mod, width, k) ==
    IF k = 0 THEN r
    ELSE One({ IF j > 0
               THEN One({ Frames(l, mod, width, k - j) : l \in {SkipIdle(r, j, width)} })
               ELSE IF k = 1 THEN Frame(r, mod, width)
               ELSE One({ Frames(l, mod, width, k - (k \div 2)) :
                          l \in {Frames(r, mod, width, k \div 2)} }) :
               j \in {IdleFrames(r, k)} })

\* for (i = 0; i < sample_buffer_size; i++) { ... samples[i] ... }
lmp_fill_buffer_mono(mps, mod, reload, sample_buffer_size) ==
    Frames(StartRun(mps, reload), mod, 1, sample_buffer_size)

\* The loop without its inner i++: one pair of samples per index
lmp_fill_buffer_stereo_hard_NoInnerStep(mps, mod, reload, sample_buffer_size) ==
    Frames(StartRun(mps, reload), mod, 2, sample_buffer_size)

\* for (i = 0; i < sample_buffer_size; i++) { ... samples[i] ...; i++; samples[i] ... }
lmp_fill_buffer_stereo_hard(mps, mod, reload, sample_buffer_size) ==
    Frames(StartRun(mps, reload), mod, 2, (sample_buffer_size + 1) \div 2)

\* The soft stereo loop without its inner i++: one frame per sample
lmp_fill_buffer_stereo_soft_PerSample(mps, mod, reload, sample_buffer_size) ==
    Frames(StartRun(mps, reload), mod, 2, sample_buffer_size)

lmp_fill_buffer_stereo_soft(mps, mod, reload, sample_buffer_size) ==
    Frames(StartRun(mps, reload), mod, 2, (sample_buffer_size + 1) \div 2)

lmp_fill_buffer(mps, mod, reload, sample_buffer_size, mix_type) ==
    IF mix_type = "LMP_MONO" THEN lmp_fill_buffer_mono(mps, mod, reload, sample_buffer_size)
    ELSE IF mix_type = "LMP_STEREO_HARD"
    THEN lmp_fill_buffer_stereo_hard(mps, mod, reload, sample_buffer_size)
    ELSE lmp_fill_buffer_stereo_soft(mps, mod, reload, sample_buffer_size)

(***************************************************************************)
(* Module files the player is run on                                       *)
(***************************************************************************)
\* The file bytes of a cell with the given period, instrument number,
\* effect command and parameter
MkCell(period, instrument, command, param) ==
    <<((instrument \div 16) * 16) + (period \div 256), period % 256,
      ((instrument % 16) * 16) + command, param>>

\* The file bytes (big-endian halfwords) of an instrument record
MkInstr(lenw, volume, rposw, rlenw) ==
    [len  |-> <<lenw \div 256, lenw % 256>>,
     vol  |-> <<0, volume>>,
     rpos |-> <<rposw \div 256, rposw % 256>>,
     rlen |-> <<rlenw \div 256, rlenw % 256>>]

None == ZeroCell

Cmd(command, param) == MkCell(0, 0, command, param)

\* instrument 1: 2-byte one-shot, volume 64;  2: 128-byte sample looping over
\* bytes 32..95, volume 48;  3: 2-byte one-shot whose volume byte is 0x7f;
\* 4: 6-byte sample looping over bytes 2..5, volume 32
Instruments ==
    <<MkInstr(1, 64, 0, 1), MkInstr(64, 48, 16, 32), MkInstr(1, 127, 0, 1),
      MkInstr(3, 32, 1, 2)>>

\* A module whose row 0 of pattern 0 is row0 and whose every other row is rest
RowModule(magic, length, sequence, row0, rest) ==
    [magic |-> magic, length |-> length, sequence |-> sequence, instr |-> Instruments,
     rows |-> (<<0, 0>> :> row0), rest |-> rest]

\* B00 on the last channel
JumpToStart == <<None, None, None, Cmd(11, 0)>>

\* F03: three ticks per row
Speed3 == Cmd(15, 3)

\* Position jumps and pattern breaks on three channels of one row: B00, B01,
\* B05 (past the end), D10 (row 10) and D64 (row 64: ignored)
JumpCells == {None, Cmd(11, 0), Cmd(11, 1), Cmd(11, 5), Cmd(13, 16), Cmd(13, 100)}

JumpModules ==
    {RowModule(TRUE, 2, <<0, 1>>, <<a, b, Speed3, None>>, JumpToStart) :
        a \in JumpCells, b \in JumpCells}
    \cup {RowModule(TRUE, 2, <<0, 1>>, <<a, Cmd(13, 16), Speed3, Cmd(13, 16)>>, JumpToStart) :
            a \in {Cmd(11, 0), Cmd(13, 16)}}

\* Songs that never reach the end of the sequence: B01 on every row of a
\* two-position song; B00 followed by D00 on every row of a one-position song
EndlessModules ==
    {RowModule(TRUE, 2, <<0, 1>>, <<None, None, Speed3, None>>,
               <<None, None, None, Cmd(11, 1)>>),
     RowModule(TRUE, 1, <<0>>, <<Cmd(11, 0), Cmd(13, 0), Speed3, None>>,
               <<Cmd(11, 0), Cmd(13, 0), None, None>>)}

\* Notes with each instrument and period, alone, with a volume command and
\* with a portamento (on a one-shot and on a looping sample)
NoteCells ==
    {MkCell(period, instrument, 0, 0) :
        period \in {113, 856}, instrument \in {0, 1, 3}}
    \cup {MkCell(428, instrument, command[1], command[2]) :
            instrument \in {1, 3},
            command \in {<<12, 32>>, <<12, 255>>, <<10, 16>>, <<10, 240>>}}
    \cup {MkCell(113, 1, 1, 255), MkCell(113, 2, 1, 255), MkCell(856, 1, 2, 255)}
    \cup {MkCell(644, 1, 0, 0), MkCell(300, 2, 2, 16), MkCell(300, 2, 1, 16)}

NoteModules ==
    {RowModule(magic, 1, <<0>>, <<a, None, Speed3, None>>, JumpToStart) :
        a \in NoteCells, magic \in {TRUE}}

\* Set speed / set tempo
SpeedModules ==
    {RowModule(TRUE, 1, <<0>>, <<None, Cmd(15, p), None, None>>, JumpToStart) :
        p \in {0, 2, 31, 32, 125, 255}}

\* Songs played from the first row to the last: one tick per row; the empty
\* sequence; a break to row 63 of the next pattern
WalkModules ==
    {RowModule(TRUE, 1, <<0>>, <<None, None, None, Cmd(15, 1)>>, ZeroRow),
     RowModule(FALSE, 0, <<0>>, <<None, None, None, Cmd(15, 1)>>, ZeroRow),
     RowModule(FALSE, 2, <<0, 0>>, <<None, Cmd(13, 99), None, Cmd(15, 1)>>, ZeroRow)}

\* A portamento on a channel that has played no note
PortamentoModules ==
    {RowModule(TRUE, 1, <<0>>, <<Cmd(command, 0), None, Speed3, None>>, JumpToStart) :
        command \in {1, 2}}

\* A 15-instrument module (no "M.K.") whose cells name instrument 16 or 31
\* with a period: alone on a silent channel, and on the row after a note
BadInstrumentModules ==
    {RowModule(FALSE, 1, <<0>>, <<a, None, Speed3, None>>, JumpToStart) :
        a \in {MkCell(428, 16, 12, 32), MkCell(428, 31, 10, 16), MkCell(428, 17, 2, 255)}}
    \cup {RowModule(FALSE, 1, <<0>>, <<MkCell(428, 2, 0, 0), None, Speed3, None>>,
                     <<MkCell(856, 16, 12, 32), None, None, Cmd(11, 0)>>)}

\* A pattern break on every row, row 63 included, one tick per row
BreakModules ==
    {RowModule(FALSE, 3, <<0, 0, 0>>, <<None, Cmd(13, 99), None, Cmd(15, 1)>>,
               <<Cmd(13, 99), None, None, None>>)}

Modules ==
    JumpModules \cup EndlessModules \cup NoteModules \cup SpeedModules \cup WalkModules
        \cup PortamentoModules \cup BadInstrumentModules \cup BreakModules

(***************************************************************************)
(* The calls                                                               *)
(***************************************************************************)
MaxFine == 1

MaxPos == 2

MaxFrames == 17

\* What the caller's memory can hold where cs[].pitch lies
UninitPitch == {0, 428}

\* mod: the module file; mps: the player state (mps_t); call: the latest call
\* of the API and what it returned ("SIGFPE" for a fill call that did not
\* return); halted: the player has stopped in a division by zero; reload: the value sample_counter was last reloaded with;
\* done_seen: a fill call has returned 0 since the latest lmp_set_pos;
\* fine: the single-frame calls made since the latest tick; last_row: the cells
\* of the latest row processed, <<>> before the first.
VARIABLES mod, mps, call, halted, reload, done_seen, fine, last_row

vars == <<mod, mps, call, halted, reload, done_seen, fine, last_row>>

Init ==
    /\ mod \in Modules
    /\ \E pitch0 \in UninitPitch : mps = lmp_init(mod, pitch0)
    /\ call = [op |-> "lmp_init"]
    /\ halted = FALSE
    /\ reload = lmp_samps_from_tempo(125)
    /\ done_seen = FALSE
    /\ fine = 0
    /\ last_row = <<>>

Width(mix) == IF mix = "LMP_MONO" THEN 1 ELSE 2

FillBuffer(mix, n) ==
    /\ ~halted
    /\ \E r \in {lmp_fill_buffer(mps, mod, reload, n, mix)} :
           /\ mps' = r.mps
           /\ halted' = r.fault
           /\ reload' = r.reload
           /\ done_seen' = (done_seen \/ r.done = 1)
           /\ last_row' = IF r.row # <<>> THEN r.row ELSE last_row
           /\ call' = IF r.fault
                      THEN [op |-> "SIGFPE", mix |-> mix, n |-> n]
                      ELSE [op |-> "lmp_fill_buffer", mix |-> mix, n |-> n,
                            ret |-> IF r.done = 1 THEN 0 ELSE 1,
                            looped |-> r.looped, frame |-> r.frame, out |-> r.out,
                            after_done |-> done_seen, past |-> r.past]
    /\ UNCHANGED mod

\* A call for one output frame; at most MaxFine of them between two ticks
FillFine ==
    /\ fine < MaxFine
    /\ \E mix \in MixTypes : FillBuffer(mix, Width(mix))
    /\ fine' = fine + 1

\* A call for the frames that remain up to and including the next tick
FillToTick ==
    /\ \E mix \in MixTypes : FillBuffer(mix, mps.sample_counter * Width(mix))
    /\ fine' = 0

\* No frame has been produced yet
NotStarted == mps.tick_counter = 0 /\ mps.sample_counter = mps.samples_per_tick

\* The player stands at the start of a row
AtRow == fine = 0 /\ mps.tick_counter \in {0, mps.speed}

\* lmp_set_pos, called between two rows
SetPos(pos) ==
    /\ ~halted
    /\ AtRow
    /\ call.op \in {"lmp_init", "lmp_fill_buffer"}
    /\ mps' = lmp_set_pos(mps, pos)
    /\ call' = [op |-> "lmp_set_pos", pos |-> pos]
    /\ done_seen' = FALSE
    /\ UNCHANGED <<mod, halted, reload, fine, last_row>>

\* lmp_set_option, called once after lmp_init as in the usage the file documents
SetOption(option, val) ==
    /\ ~halted
    /\ NotStarted
    /\ call.op = "lmp_init"
    /\ mps' = lmp_set_option(mps, option, val)
    /\ call' = [op |-> "lmp_set_option", option |-> option, val |-> val]
    /\ UNCHANGED <<mod, halted, reload, done_seen, fine, last_row>>

Next ==
    \/ FillFine
    \/ FillToTick
    \/ \E pos \in 0 .. MaxPos : SetPos(pos)
    \/ \E option \in 0 .. 1, val \in 0 .. 1 : SetOption(option, val)

Spec == Init /\ [][Next]_vars

\* The test program: lmp_init, lmp_set_option(LMP_OPT_LOOP, 0), then
\* lmp_fill_buffer again and again
LiveInit ==
    /\ mod \in Modules
    /\ \E pitch0 \in UninitPitch :
          mps = lmp_set_option(lmp_init(mod, pitch0), LMP_OPT_LOOP, 0)
    /\ call = [op |-> "lmp_set_option", option |-> LMP_OPT_LOOP, val |-> 0]
    /\ halted = FALSE
    /\ reload = lmp_samps_from_tempo(125)
    /\ done_seen = FALSE
    /\ fine = 0
    /\ last_row = <<>>

LiveNext == FillFine \/ FillToTick

LiveSpec == LiveInit /\ [][LiveNext]_vars /\ WF_vars(LiveNext)

\* A call for one output frame: any of the first MaxFrames frames after a
\* tick, and the frame whose lmp_check_for_tick runs the next tick
FillFrame ==
    /\ fine < MaxFrames \/ mps.sample_counter = 1
    /\ FillBuffer("LMP_MONO", 1)
    /\ fine' = IF mps.sample_counter = 1 THEN 0 ELSE fine + 1

\* A call for the frames that remain before the one that runs the next tick
FillToLast ==
    /\ mps.sample_counter > 1
    /\ \E mix \in MixTypes : FillBuffer(mix, (mps.sample_counter - 1) * Width(mix))
    /\ UNCHANGED fine

FrameNext ==
    \/ FillFrame
    \/ FillToLast
    \/ \E val \in 0 .. 1 : SetOption(LMP_OPT_SUPPORT_TEMPO, val)

\* The modules it is followed on: notes, speeds, portamenti, and pattern
\* breaks on one and on several channels of a row
\* A note on the short looping sample, one tick per row
LoopModules ==
    {RowModule(TRUE, 1, <<0>>, <<MkCell(113, 4, 0, 0), None, None, Cmd(15, 1)>>, JumpToStart)}

\* A note with a portamento down at one, two and five ticks per row
SlideModules ==
    {RowModule(TRUE, 1, <<0>>, <<MkCell(300, 2, 2, 16), None, Cmd(15, speed), None>>,
               JumpToStart) : speed \in {1, 2, 5}}

\* A portamento up below zero (113 - 255 = 65394 in 16 bits) at two ticks
\* per row, then a portamento down by 142 on the next row
WrapModules ==
    {RowModule(TRUE, 1, <<0>>, <<MkCell(113, 2, 1, 255), None, Cmd(15, 2), None>>,
               <<Cmd(2, 142), None, None, Cmd(11, 0)>>)}

FrameModules ==
    NoteModules \cup SpeedModules \cup PortamentoModules \cup BadInstrumentModules
        \cup BreakModules \cup LoopModules \cup SlideModules \cup WrapModules
        \cup {RowModule(TRUE, 2, <<0, 1>>, <<a, Cmd(13, 16), Speed3, Cmd(13, 16)>>, JumpToStart) :
                a \in {None, Cmd(13, 100), Cmd(13, 16)}}

FrameInit ==
    /\ mod \in FrameModules
    /\ \E pitch0 \in UninitPitch : mps = lmp_init(mod, pitch0)
    /\ call = [op |-> "lmp_init"]
    /\ halted = FALSE
    /\ reload = lmp_samps_from_tempo(125)
    /\ done_seen = FALSE
    /\ fine = 0
    /\ last_row = <<>>

\* The player driven one output frame at a time around each tick
FrameSpec == FrameInit /\ [][FrameNext]_vars

\* Modules with looping and sliding voices, speed and tempo changes
SplitModules == SlideModules \cup BadInstrumentModules \cup SpeedModules

SplitInit ==
    /\ mod \in SplitModules
    /\ \E pitch0 \in UninitPitch : mps = lmp_init(mod, pitch0)
    /\ call = [op |-> "lmp_init"]
    /\ halted = FALSE
    /\ reload = lmp_samps_from_tempo(125)
    /\ done_seen = FALSE
    /\ fine = 0
    /\ last_row = <<>>

\* The player driven by calls for one frame and calls up to the next tick, in
\* any mix
SplitSpec == SplitInit /\ [][LiveNext]_vars

(***************************************************************************)
(* Properties                                                              *)
(***************************************************************************)
Filled == call.op = "lmp_fill_buffer"

\* C1 (as stated): once a fill call has returned false, every later fill call
\* returns false too, until lmp_set_pos is called.
C1_FalseIsLatched == (Filled /\ call.after_done) => call.ret = 0

\* C1 (amended): a fill call returns false only when a row tick in it reached
\* the end of the sequence, and that tick has put the position back to 0; the
\* result is not remembered: a fill call made after one that returned false
\* returns false exactly when a row tick reaches the end again during it.
C1_FalseIsPerCall ==
    Filled =>
        /\ call.ret = 0 => (call.looped /\ mps.pos = 0)
        /\ call.after_done => (call.ret = 0 <=> call.looped)

\* A fill call that returns true although an earlier one returned false
C1_Witness == Filled /\ call.after_done /\ call.ret = 1 /\ mps.song_loop = 0

\* A position jump, on channel c of the row, that leaves the position inside
\* the sequence: to a position 1 .. length - 1, or followed on a later channel
\* by a pattern break (which steps on from the jump target, ~0 included)
InwardJump(row, length) ==
    \E c \in 1 .. 4 :
        /\ NoteCommand(row[c]) = 11
        /\ \/ NoteVal(row[c]) \in 1 .. length - 1
           \/ \E d \in c + 1 .. 4 :
                 NoteCommand(row[d]) = 13 /\ BreakRow(NoteVal(row[d])) <= 63

ModuleRows(m) == {m.rest} \cup {m.rows[k] : k \in DOMAIN m.rows}

NoInwardJump(m) == \A row \in ModuleRows(m) : ~InwardJump(row, m.length)

ReturnedFalse == Filled /\ call.ret = 0

\* A fill call has returned false, or has not returned: the player has stopped
\* in the division by zero of a portamento tick
Ended == ReturnedFalse \/ halted

C3_FalseOnlyAtEndWithoutLoop ==
    Filled => (call.ret = 0 => (call.looped /\ mps.song_loop = 0))

\* A fill call in which the song reached its end with song_loop true
C3_Witness == Filled /\ call.looped /\ mps.song_loop = 1 /\ call.ret = 1

\* C4: 0 <= vol <= 64 on every channel, after init and after every fill call.
C4_VolumeInRange == \A c \in Chans : mps.cs[c].vol \in 0 .. 64

\* C5: 113 <= pitch <= 856 on every channel whose voice is on.
C5_PitchInRange ==
    \A c \in Chans : mps.cs[c].on # 0 => mps.cs[c].pitch \in 113 .. 856

RowInRange == mps.pos_pattern \in 0 .. 63

\* C6 (as stated): 0 <= row <= 63 and 0 <= position < sequence_length after
\* init, after every lmp_set_pos and after every fill call.
C6_RowAndPositionInRange ==
    RowInRange /\ 0 <= mps.pos /\ mps.pos < mps.length

\* C6 (amended): so it is for a module whose sequence_length is at least 1.
C6_InRangeIfSequenceNotEmpty ==
    mps.length >= 1 => (RowInRange /\ 0 <= mps.pos /\ mps.pos < mps.length)

\* A row with B00 followed by D10 has been processed: position 0, row 10
C6_Witness ==
    /\ Filled
    /\ call.frame # <<>>
    /\ \E c \in 1 .. 3 : call.frame[c] = Cmd(11, 0) /\ call.frame[c + 1] = Cmd(13, 16)
    /\ mps.pos = 0
    /\ mps.pos_pattern = 10

\* C7 (as stated): samples_per_tick > 0 and 1 <= sample_counter <=
\* samples_per_tick in every state between output frames.
C7_CounterWithinTick ==
    /\ mps.samples_per_tick > 0
    /\ 1 <= mps.sample_counter
    /\ mps.sample_counter <= mps.samples_per_tick

\* C7 (amended): samples_per_tick > 0 and 1 <= sample_counter <= the value the
\* counter was last reloaded with, which is samples_per_tick except between a
\* row tick (whose set-tempo command changed samples_per_tick) and the next tick.
C7_CounterWithinReload ==
    /\ mps.samples_per_tick > 0
    /\ 1 <= mps.sample_counter
    /\ mps.sample_counter <= reload
    /\ reload # mps.samples_per_tick => mps.tick_counter = mps.speed

\* After a set-tempo row the counter still runs down the old tick length
C7_Witness ==
    /\ Filled
    /\ mps.tempo = 255
    /\ mps.sample_counter > mps.samples_per_tick

\* C8: a fill call stores exactly sample_count values, to samples[0 ..
\* sample_count - 1], one to each: mono for any count, stereo for an even count.
C8_StoresExactlyCount ==
    (Filled /\ (call.mix = "LMP_MONO" \/ call.n % 2 = 0)) =>
        call.out = [count |-> call.n, lo |-> 0, hi |-> call.n - 1, dense |-> TRUE]

\* A hard-stereo call for the frames of a whole tick
C8_Witness ==
    /\ Filled
    /\ call.mix = "LMP_STEREO_HARD"
    /\ call.n >= 2 * lmp_samps_from_tempo(255)
    /\ call.out.count = call.n

\* C9: lmp_set_pos(pos) with pos < sequence_length sets position = pos and
\* row = 0 and changes nothing else; with pos >= sequence_length it changes
\* nothing.
C9_SetPos ==
    [][call'.op = "lmp_set_pos" =>
          IF call'.pos < mps.length
          THEN mps' = [mps EXCEPT !.pos = call'.pos, !.pos_pattern = 0]
          ELSE mps' = mps]_vars

\* lmp_set_pos(1) has moved a playing song to position 1
C9_Witness ==
    /\ call.op = "lmp_set_pos"
    /\ call.pos = 1
    /\ mps.pos = 1
    /\ mps.pos_pattern = 0
    /\ mps.tick_counter > 0

IsB00(cell) == NoteCommand(cell) = 11 /\ NoteVal(cell) = 0

\* The cell moves the position: a jump other than B00, or a break to a row <= 63
Moves(cell) ==
    \/ NoteCommand(cell) = 11 /\ NoteVal(cell) # 0
    \/ NoteCommand(cell) = 13 /\ BreakRow(NoteVal(cell)) <= 63

RestartedAtB00 ==
    /\ mps.pos = 0
    /\ mps.pos_pattern = 0
    /\ call.ret = (IF mps.song_loop = 0 THEN 0 ELSE 1)

\* C10 (as stated): after a row with B00 on any channel, position and row are
\* 0 and the fill call returns true with song_loop on, false with it off,
\* whatever the other channels of the row carry.
C10_B00Restarts ==
    (Filled /\ call.frame # <<>> /\ (\E c \in 1 .. 4 : IsB00(call.frame[c])))
        => RestartedAtB00

\* C10 (amended): so it is when no later channel of the row carries a position
\* jump with a non-zero parameter or a pattern break to a row <= 63.
C10_LastB00Restarts ==
    (/\ Filled
     /\ call.frame # <<>>
     /\ \E c \in 1 .. 4 :
           IsB00(call.frame[c]) /\ \A d \in c + 1 .. 4 : ~Moves(call.frame[d]))
        => RestartedAtB00

\* A row with a pattern break and then B00 has ended a song that does not loop
C10_Witness ==
    /\ Filled
    /\ call.frame # <<>>
    /\ call.frame[1] = Cmd(13, 16)
    /\ call.frame[2] = Cmd(11, 0)
    /\ mps.song_loop = 0
    /\ call.ret = 0

(***************************************************************************)
(* Steps of FrameSpec that run a tick: the one-frame call made when        *)
(* sample_counter is 1 renders one frame and then calls lmp_tick.          *)
(***************************************************************************)
TickStep == ~halted /\ mps.sample_counter = 1 /\ call'.op = "lmp_fill_buffer"

RowTickStep == TickStep /\ mps.tick_counter <= 1

InterRowTickStep == TickStep /\ mps.tick_counter > 1

\* The channels (1..4) of a row whose cell holds the command
CellsWith(cells, command) == {c \in 1 .. 4 : NoteCommand(cells[c]) = command}

DecodedRow(val) == ((val \div 16) * 10) + (val % 16)

\* The channels whose cell is a pattern break to a row of the pattern
Breaks(cells) == {c \in CellsWith(cells, 13) : DecodedRow(NoteVal(cells[c])) <= 63}

\* The position after the end-of-sequence wrap
Wrapped(pos, length) == IF pos >= length THEN 0 ELSE pos

\* C11: on a row without position jump, a pattern break to a row r <= 63, on
\* one or on several channels, makes row r the next row and adds exactly one
\* to the position (before the end-of-sequence wrap), also on row 63; breaks
\* to rows above 63 leave the row and the position to advance as without them.
C11_BreakAdvancesOnce ==
    [][RowTickStep /\ CellsWith(call'.frame, 11) = {} /\ CellsWith(call'.frame, 13) # {}
       => IF Breaks(call'.frame) # {}
          THEN /\ mps'.pos_pattern =
                      DecodedRow(NoteVal(call'.frame[Max(Breaks(call'.frame))]))
               /\ mps'.pos = Wrapped(mps.pos + 1, mps.length)
          ELSE /\ mps'.pos_pattern = (mps.pos_pattern + 1) % 64
               /\ mps'.pos = Wrapped(mps.pos + (IF mps.pos_pattern = 63 THEN 1 ELSE 0),
                                     mps.length)]_vars

\* C12: on a row whose only set-speed cell has parameter p: 0 < p < 0x20 sets
\* speed and tick_counter to p; p >= 0x20 with support_tempo sets tempo to p
\* and samples_per_tick to (125 * rate / 50) / p; p = 0, or p >= 0x20 without
\* support_tempo, leaves speed, the tick_counter reload, tempo and
\* samples_per_tick as they were.
C12_SetSpeedBelow0x20 ==
    [][RowTickStep /\ Cardinality(CellsWith(call'.frame, 15)) = 1
       => LET p == NoteVal(call'.frame[Max(CellsWith(call'.frame, 15))])
          IN  IF p > 0 /\ p < 32
              THEN mps'.speed = p /\ mps'.tick_counter = p
              ELSE IF p >= 32 /\ mps.support_tempo # 0
              THEN /\ mps'.tempo = p
                   /\ mps'.samples_per_tick = ((125 * LMP_SAMPLERATE) \div 50) \div p
              ELSE /\ mps'.speed = mps.speed
                   /\ mps'.tick_counter = mps.speed
                   /\ mps'.tempo = mps.tempo
                   /\ mps'.samples_per_tick = mps.samples_per_tick]_vars

(***************************************************************************)
(* The channel DSP, one output frame at a time                             *)
(***************************************************************************)
\* C13: after every output sample an on channel that plays a one-shot
\* sample (looping = 0) has pos < len: a voice whose pos reaches or passes len
\* is off after that sample.
C13_OneShotBelowLen ==
    Filled => \A c \in Chans :
                 mps.cs[c].on # 0 /\ mps.cs[c].looping = 0 => mps.cs[c].pos < mps.cs[c].len

\* Every instrument's loop lies inside its sample
LoopsInside(m) ==
    \A i \in 0 .. 30 :
        inst(m, i).repeat_pos + inst(m, i).repeat_len <= inst(m, i).len

\* C14: for instruments whose loop lies inside the sample, every index a fill
\* call reads from a channel's sample (pos >> 12 for c1, one more for c2) is
\* below the sample's length in bytes.
C14_ReadsInsideSample ==
    Filled /\ LoopsInside(mod) => call.past = 0

(***************************************************************************)
(* Cells that name an instrument the module does not have                  *)
(***************************************************************************)
\* Cell c (1..4) has a period and an instrument number above the module's
BadNote(cells, c, thirtyone) ==
    NoteFreq(cells[c]) # 0 /\ NoteInst(cells[c]) > (IF thirtyone = 1 THEN 31 ELSE 15)

\* The fields of a channel that a note trigger sets, vol apart
NoteFields(ch) ==
    <<ch.on, ch.inst, ch.sample, ch.pos, ch.len, ch.looping, ch.repeat_pos, ch.repeat_end,
      ch.phaseinc, ch.pitch>>

\* C15 as stated: a cell with a period and an instrument number above N
\* changes nothing on its channel but the pending slide, which is cleared:
\* no note is triggered and the cell's command is not applied.
C15_BadInstrumentCellIgnored ==
    [][RowTickStep
       => \A c \in 1 .. 4 :
             BadNote(call'.frame, c, mps.thirtyone)
             => mps'.cs[c - 1] = [RenderChan(mps.cs[c - 1]) EXCEPT !.effect = NO_EFFECT]]_vars

\* C15 amended: such a cell triggers no note on its channel, and its command
\* is applied as on any other cell: set volume (12) and volume slide (10)
\* change vol, a portamento (1, 2) is armed, and otherwise the pending slide
\* is cleared and vol kept.
C15_BadInstrumentCellCommandOnly ==
    [][RowTickStep
       => \A c \in 1 .. 4 :
             BadNote(call'.frame, c, mps.thirtyone)
             => LET before == RenderChan(mps.cs[c - 1])
                    after == mps'.cs[c - 1]
                    command == NoteCommand(call'.frame[c])
                    val == NoteVal(call'.frame[c])
                    slid == before.vol + (IF val >= 128 THEN val - 256 ELSE val)
                IN  /\ NoteFields(after) = NoteFields(before)
                    /\ command = 12 => after.vol = (IF val > 64 THEN 64 ELSE val)
                    /\ command = 10
                          => after.vol = (IF slid > 64 THEN 64 ELSE IF slid < 0 THEN 0 ELSE slid)
                    /\ command \in {1, 2}
                          => after.effect = command /\ after.effect_param = val
                    /\ command \notin {1, 2} => after.effect = NO_EFFECT
                    /\ command \notin {10, 12} => after.vol = before.vol]_vars

\* The row after a note holds such a cell with a set-volume command: the
\* note plays on at its pitch with the new volume
C15_Witness ==
    /\ Filled
    /\ call.frame # <<>>
    /\ \E c \in 1 .. 4 :
          /\ BadNote(call.frame, c, mps.thirtyone)
          /\ NoteCommand(call.frame[c]) = 12
          /\ mps.cs[c - 1].on = 1
          /\ mps.cs[c - 1].pitch # NoteFreq(call.frame[c])
          /\ mps.cs[c - 1].vol = NoteVal(call.frame[c])
          /\ mps.cs[c - 1].vol # inst(mod, mps.cs[c - 1].inst).default_volume

(***************************************************************************)
(* Looping voices                                                          *)
(***************************************************************************)
\* The latest tick of the call was a row tick that triggered a note on
\* channel c (0..3)
Triggered(fill, c, thirtyone) ==
    /\ fill.frame # <<>>
    /\ NoteFreq(fill.frame[c + 1]) # 0
    /\ ~BadNote(fill.frame, c + 1, thirtyone)

\* C16: a note triggered with an instrument whose repeat length is not 2
\* bytes leaves its channel on and looping, and the channel stays on over
\* every fill call that triggers no new note on it.
C16_LoopingVoiceStaysOn ==
    [][call'.op = "lmp_fill_buffer"
       => \A c \in Chans :
             /\ /\ Triggered(call', c, mps.thirtyone)
                /\ inst(mod, mps'.cs[c].inst).repeat_len # 2
                => mps'.cs[c].on = 1 /\ mps'.cs[c].looping = 1
             /\ /\ mps.cs[c].on # 0
                /\ mps.cs[c].looping \in {1, 2}
                /\ ~Triggered(call', c, mps.thirtyone)
                => mps'.cs[c].on # 0 /\ mps'.cs[c].looping \in {1, 2}]_vars

\* A voice has played past the end of its sample and is on, inside its loop
C16_Witness ==
    Filled /\ \E c \in Chans :
                 /\ mps.cs[c].on # 0
                 /\ mps.cs[c].looping = 2
                 /\ inst(mod, mps.cs[c].inst).repeat_len # 2
                 /\ mps.cs[c].len > 0

\* C17: a channel whose loop lies inside its sample (repeat_end <= len) has
\* repeat_pos <= pos <= repeat_end after every output sample while its
\* looping is 2, and looping becomes 2 only from 1, in a frame whose
\* pos + phaseinc passes len.
C17_LoopingStaysInLoop ==
    [][\A c \in Chans :
          /\ mps'.cs[c].looping = 2 /\ mps'.cs[c].repeat_end <= mps'.cs[c].len
             => /\ mps'.cs[c].repeat_pos <= mps'.cs[c].pos
                /\ mps'.cs[c].pos <= mps'.cs[c].repeat_end
          /\ mps'.cs[c].looping = 2 /\ mps.cs[c].looping # 2
             => /\ mps.cs[c].looping = 1
                /\ mps.cs[c].on # 0
                /\ call'.op = "lmp_fill_buffer"
                /\ call'.n = 1 => mps.cs[c].pos + mps.cs[c].phaseinc > mps.cs[c].len]_vars

\* A voice inside a loop that does not start at the sample's first byte,
\* after a one-frame call
C17_Witness ==
    Filled /\ call.n = 1
           /\ \E c \in Chans :
                 /\ mps.cs[c].on # 0
                 /\ mps.cs[c].looping = 2
                 /\ mps.cs[c].repeat_end <= mps.cs[c].len
                 /\ 0 < mps.cs[c].repeat_pos
                 /\ mps.cs[c].repeat_pos < mps.cs[c].pos

(***************************************************************************)
(* Portamento                                                              *)
(***************************************************************************)
\* C18: an inter-row tick leaves a channel whose pending effect is portamento
\* up with pitch = max(pitch - param, 113), whatever param and pitch are.
C18_PortaUpClamped ==
    [][InterRowTickStep
       => \A c \in Chans :
             mps.cs[c].effect = 1
             => mps'.cs[c].pitch = Max({mps.cs[c].pitch - mps.cs[c].effect_param, 113})]_vars

\* Channel c (0..3) of the latest row processed triggered a note of a period
\* up to 856 and armed a portamento down
SlidingDown(c) ==
    /\ last_row # <<>>
    /\ NoteFreq(last_row[c + 1]) # 0
    /\ NoteFreq(last_row[c + 1]) <= 856
    /\ ~BadNote(last_row, c + 1, mps.thirtyone)
    /\ NoteCommand(last_row[c + 1]) = 2

C20_RowEverySpeedTicks ==
    [][call'.op = "lmp_fill_buffer"
       => IF mps.sample_counter # 1
          THEN mps'.tick_counter = mps.tick_counter /\ call'.frame = <<>>
          ELSE IF mps.tick_counter > 1
          THEN /\ call'.frame = <<>>
               /\ mps'.tick_counter = mps.tick_counter - 1
               /\ mps'.pos = mps.pos
               /\ mps'.pos_pattern = mps.pos_pattern
               /\ mps'.speed = mps.speed
               /\ \A c \in Chans :
                     LET before == RenderChan(mps.cs[c])
                         after == mps'.cs[c]
                     IN  /\ after.on = before.on
                         /\ after.vol = before.vol
                         /\ after.inst = before.inst
                         /\ after.pos = before.pos
          ELSE /\ call'.frame # <<>>
               /\ mps'.speed >= 1
               /\ mps'.tick_counter = mps'.speed]_vars

\* The fourth and last inter-row tick of a row played at speed 5 has run
C20_Witness ==
    /\ Filled
    /\ call.frame = <<>>
    /\ last_row # <<>>
    /\ mps.speed = 5
    /\ mps.tick_counter = 1
    /\ mps.sample_counter = mps.samples_per_tick

\* C21: once a row has been processed, a channel's pending effect is the
\* portamento (1 or 2) of that channel's cell in the latest row processed, or
\* none if the cell has no such command; so an inter-row tick changes the pitch
\* of a channel only if that cell carries command 1 or 2, and a slide armed by
\* an earlier row is not applied.
C21_SlideOnlyFromLatestRow ==
    [][/\ call'.op = "lmp_fill_buffer" /\ last_row' # <<>>
          => \A c \in Chans :
                IF NoteCommand(last_row'[c + 1]) \in {1, 2}
                THEN /\ mps'.cs[c].effect = NoteCommand(last_row'[c + 1])
                     /\ mps'.cs[c].effect_param = NoteVal(last_row'[c + 1])
                ELSE mps'.cs[c].effect = NO_EFFECT
       /\ InterRowTickStep
          => \A c \in Chans :
                mps'.cs[c].pitch # mps.cs[c].pitch
                => NoteCommand(last_row[c + 1]) \in {1, 2}]_vars

\* The row after a note with a portamento down has had its inter-row ticks:
\* the channel keeps the pitch the slide left, no slide is pending
C21_Witness ==
    /\ Filled
    /\ call.frame = <<>>
    /\ last_row # <<>>
    /\ mps.speed > 1
    /\ mps.tick_counter = 1
    /\ mps.sample_counter = mps.samples_per_tick
    /\ \E c \in Chans :
          LET armed == mod.rows[<<0, 0>>][c + 1]
          IN  /\ NoteCommand(armed) = 2
              /\ NoteVal(armed) > 0
              /\ NoteFreq(armed) # 0
              /\ NoteCommand(last_row[c + 1]) \notin {1, 2}
              /\ mps.cs[c].effect = NO_EFFECT
              /\ mps.cs[c].pitch =
                    Min({NoteFreq(armed) + (mps.speed - 1) * NoteVal(armed), 856})
              /\ mps.cs[c].pitch # NoteFreq(armed)

(***************************************************************************)
(* Calls and frames                                                        *)
(***************************************************************************)
\* The player state after a call for k more output frames in the given mix
\* from player state m
After(m, k, mix) == lmp_fill_buffer(m, mod, reload, k * Width(mix), mix).mps

\* C22: the player state depends on the number of output frames only.  After
\* a call for one frame, the frames up to the next tick lead, in every mix, to
\* the state that one mono call for all those frames leads to from the state
\* before; after a call up to a tick, one more frame leads to the state that
\* one call for all the frames leads to; and the three mixes agree.
C22_FramesOnly ==
    [][call'.op = "lmp_fill_buffer"
       => LET k == call'.n \div Width(call'.mix)
              rest == IF mps.sample_counter > k THEN mps.sample_counter - k ELSE 1
          IN  \A whole \in {After(mps, k + rest, "LMP_MONO")} :
                 \A mix \in MixTypes :
                    /\ After(mps', rest, mix) = whole
                    /\ After(mps, k + rest, mix) = whole
                    /\ After(mps, k, mix) = mps']_vars

\* A one-frame stereo call has been made while a voice plays, the tick is
\* still to come
C22_Witness ==
    /\ Filled
    /\ call.mix # "LMP_MONO"
    /\ call.n = 2
    /\ mps.sample_counter > 1
    /\ mps.sample_counter < mps.samples_per_tick
    /\ \E c \in Chans : mps.cs[c].on # 0 /\ mps.cs[c].pos > 0

(***************************************************************************)
(* Divisions                                                               *)
(***************************************************************************)
\* C23: no fill call stops in a division by zero: the pitch lmp_pi_from_pitch
\* is called with, at a note trigger and on a portamento tick, is not zero,
\* and neither is the tempo lmp_samps_from_tempo is called with.
C23_NoDivisionByZero ==
    /\ call.op # "SIGFPE"
    /\ ~halted
    /\ mps.tempo # 0
====
